---- MODULE Spec2Model ----
(***************************************************************************)
(* Model of the omnishard mock shard router (exporter/omnishard/           *)
(* mock_server.go) and of the test sinks of the omnishard exporter.        *)
(*                                                                         *)
(* An Export RPC is a process in a slot of `calls`: the handler reads the  *)
(* authoritative map through GetConfig (a critical section of configMutex) *)
(* at line 62 and again at line 66, and appends to the sink (a critical    *)
(* section of Sink.mutex) at line 70, so other handlers and SetConfig may  *)
(* run between these steps.  The header check and the simulated failure    *)
(* read only fields that are fixed once the server listens, so they are    *)
(* one step with the start of the call.                                    *)
(***************************************************************************)
EXTENDS Integers, Sequences, FiniteSets, TLC

VARIABLES
    headers,                    \* gRPCServer.headers
    RandomServerError,          \* mockServer.RandomServerError
    config,                     \* mockServer.config
    nextResponseCode,           \* mockServer.nextResponseCode
    nextResponseShardingConfig, \* mockServer.nextResponseShardingConfig
    requests,                   \* mockServerSink.requests
    records,                    \* mockServerSink.records
    calls,                      \* Export handlers in flight, by slot
    last,                       \* history: what the RPC finished last returned
    lastSet                     \* history: the argument of the latest SetConfig

routerVars == <<headers, RandomServerError, config, nextResponseCode,
                nextResponseShardingConfig, requests, records, calls, last,
                lastSet>>

VARIABLES
    successSpanCount,   \* encoderSink.successSpanCount
    encodedRecords,     \* encoderSink.encodedRecords
    failSpanCount,      \* encoderSink.failSpanCount
    failedSpans,        \* encoderSink.failedSpans
    encoderCall         \* history: the latest call on the sink

encoderVars == <<successSpanCount, encodedRecords, failSpanCount, failedSpans, encoderCall>>

VARIABLES
    responseToRecords,  \* clientSink.responseToRecords
    responses,          \* clientSink.responses
    failedRecords,      \* clientSink.failedRecords
    exports             \* the export client's state machine, by record

clientVars == <<responseToRecords, responses, failedRecords, exports>>

VARIABLES
    clientCall,         \* history: the latest call on the client sink
    readBack,           \* history: what the latest accessor call returned
    procs,              \* goroutines calling the sinks at once: position and call
    mutexes,            \* mockServerSink.mutex and clientSink.mutex: the holder, or 0
    started,            \* history: calls the goroutines have begun
    finished,           \* history: calls that returned, by name
    passed              \* history: the (record, response) pairs of onSendResponse

testVars == <<clientCall, readBack, procs, mutexes, started, finished, passed>>

VARIABLES
    checked,            \* the latest call of checkRequiredHeaders: context and result
    sending,            \* the request a sender submits until it is answered OK
    receiver,           \* an opencensusreceiver Config and what buildOptions made of it
    waiting             \* a call of WaitForN: position and locals

pureVars == <<checked, sending, receiver, waiting>>

\* What the operations of one part leave alone.
notRouterVars == <<encoderVars, clientVars, testVars, pureVars>>

notEncoderVars == <<routerVars, clientVars, testVars, pureVars>>

notClientVars == <<routerVars, encoderVars, testVars, pureVars>>

-----------------------------------------------------------------------------
(* Bounds of the model *)

\* Export handlers that may be in flight at once.
MaxCalls == 2

\* Requests the server sink may hold.
MaxSink == 2

Slots == 1..MaxCalls

-----------------------------------------------------------------------------
(* Data: hash keys, shard definitions, sharding configs, records, requests *)

\* A []byte hash key; a nil slice is kept apart from an empty one.
NilKey == [isNil |-> TRUE, bytes |-> <<>>]

Key(b) == [isNil |-> FALSE, bytes |-> b]

\* The byte string "m" of the two-shard scenario, as one byte.
KeyM == <<1>>

ShardDefinition(id, start, end) ==
    [ShardId |-> id, StartingHashKey |-> start, EndingHashKey |-> end]

Shard1 == ShardDefinition(1, Key(<<>>), Key(KeyM))

Shard2 == ShardDefinition(2, Key(KeyM), Key(<<>>))

Shard2All == ShardDefinition(2, Key(<<>>), Key(<<>>))

Shard2Nil == ShardDefinition(2, NilKey, NilKey)

Shard1All == ShardDefinition(1, Key(<<>>), Key(<<>>))

\* A *ShardingConfig; the nil pointer is kept apart from an empty config.
NilConfig == [isNil |-> TRUE, ShardDefinitions |-> <<>>]

ShardingConfig(defs) == [isNil |-> FALSE, ShardDefinitions |-> defs]

EmptyConfig == ShardingConfig(<<>>)

ConfigA == ShardingConfig(<<Shard1, Shard2>>)

ConfigB == ShardingConfig(<<Shard2All>>)

\* The maps a rebalancing may install.
Configs == {EmptyConfig, ConfigA, ConfigB}

Record1 == [PartitionKey |-> "apple", SpanCount |-> 1]

Record2 == [PartitionKey |-> "pear", SpanCount |-> 2]

ExportRequest(shard, record) == [Shard |-> shard, Record |-> record]

\* The requests clients submit: for a member of ConfigA; for a shard that
\* has the id and the starting key of that member (and the keys of the
\* member of ConfigB) but not its ending key; for the member of ConfigB with
\* its empty keys sent as nil.
ExportRequests ==
    {ExportRequest(Shard1, Record1), ExportRequest(Shard1All, Record1),
     ExportRequest(Shard2Nil, Record2)}

NoRequest == [Shard |-> Shard2Nil, Record |-> [PartitionKey |-> "", SpanCount |-> 0]]

\* ExportResponse_ResultCode values.
ResultCodes == {"OK", "SHARD_CONFIG_MISTMATCH"}

\* A nil *ExportResponse.
NoResponse == [isNil |-> TRUE, ResultCode |-> "OK", ShardingConfig |-> NilConfig]

ExportResponse(code, cfg) == [isNil |-> FALSE, ResultCode |-> code, ShardingConfig |-> cfg]

-----------------------------------------------------------------------------
(* Errors *)

RetryDelayNanos == 100000000

NoError == [isNil |-> TRUE, status |-> FALSE, code |-> "", msg |-> "", retryDelay |-> 0]

\* errors.New at line 118.
ErrNoMetadata ==
    [isNil |-> FALSE, status |-> FALSE, code |-> "",
     msg |-> "missing expected headers: no metadata on context", retryDelay |-> 0]

\* fmt.Errorf at line 124.
ErrMissingHeader ==
    [isNil |-> FALSE, status |-> FALSE, code |-> "",
     msg |-> "missing header key or incorrect value", retryDelay |-> 0]

\* status.New(codes.Unavailable, ...).WithDetails(RetryInfo) at lines 53-54.
ErrUnavailable ==
    [isNil |-> FALSE, status |-> TRUE, code |-> "Unavailable",
     msg |-> "Server is unavailable", retryDelay |-> RetryDelayNanos]

\* The gRPC code the client sees: a handler error that is not a status error
\* is reported with codes.Unknown.
Code(err) ==
    IF err.isNil THEN "OK" ELSE IF err.status THEN err.code ELSE "Unknown"

-----------------------------------------------------------------------------
(* Request metadata and required headers *)

HeaderNames == {"x-api-key", "x-env"}

\* The headers map handed to Listen; the empty function is "none configured".
NoHeaders == [k \in {} |-> ""]

HeaderConfigs == {NoHeaders, [k \in HeaderNames |-> "secret"]}

\* metadata.FromIncomingContext: ok = FALSE when the context has no metadata.
NoMetadata == [ok |-> FALSE, md |-> [k \in HeaderNames |-> <<>>]]

IncomingMetadata(apiKey, env) ==
    [ok |-> TRUE, md |-> [k \in HeaderNames |-> IF k = "x-api-key" THEN apiKey ELSE env]]

\* The metadata of the calls: none, no header, both headers as expected, one
\* header absent, one with a wrong value, one with a second value.
Metadata ==
    {NoMetadata,
     IncomingMetadata(<<>>, <<>>),
     IncomingMetadata(<<"secret">>, <<"secret">>),
     IncomingMetadata(<<"secret">>, <<>>),
     IncomingMetadata(<<"wrong">>, <<"secret">>),
     IncomingMetadata(<<"secret", "wrong">>, <<"secret">>)}

\* md.Get(k): the values of key k, empty when the key is absent.
MdGet(ctx, k) == ctx.md[k]

checkRequiredHeadersNoMetadata(ctx) ==
    IF Cardinality(DOMAIN headers) < 1 THEN NoError
    ELSE IF ~ctx.ok THEN NoError
    ELSE IF \E k \in DOMAIN headers :
                LET vals == MdGet(ctx, k) IN Len(vals) # 1 \/ vals[1] # headers[k]
         THEN ErrMissingHeader
         ELSE NoError

checkRequiredHeadersAnyValue(ctx) ==
    IF Cardinality(DOMAIN headers) < 1 THEN NoError
    ELSE IF ~ctx.ok THEN ErrNoMetadata
    ELSE IF \E k \in DOMAIN headers :
                \A j \in 1..Len(MdGet(ctx, k)) : MdGet(ctx, k)[j] # headers[k]
         THEN ErrMissingHeader
         ELSE NoError

checkRequiredHeadersUnavailable(ctx) ==
    IF Cardinality(DOMAIN headers) < 1 THEN NoError
    ELSE IF ~ctx.ok THEN ErrUnavailable
    ELSE IF \E k \in DOMAIN headers :
                LET vals == MdGet(ctx, k) IN Len(vals) # 1 \/ vals[1] # headers[k]
         THEN ErrUnavailable
         ELSE NoError

checkRequiredHeaders(ctx) ==
    IF Cardinality(DOMAIN headers) < 1 THEN NoError
    ELSE IF ~ctx.ok THEN ErrNoMetadata
    ELSE IF \E k \in DOMAIN headers :
                LET vals == MdGet(ctx, k) IN Len(vals) # 1 \/ vals[1] # headers[k]
         THEN ErrMissingHeader
         ELSE NoError

-----------------------------------------------------------------------------
(* Shard matching *)

\* bytes.Compare: lexicographic order of two byte strings, as -1, 0 or 1.
RECURSIVE bytesCompare(_, _)
bytesCompare(a, b) ==
    IF a = <<>> /\ b = <<>> THEN 0
    ELSE IF a = <<>> THEN -1
    ELSE IF b = <<>> THEN 1
    ELSE IF Head(a) < Head(b) THEN -1
    ELSE IF Head(a) > Head(b) THEN 1
    ELSE bytesCompare(Tail(a), Tail(b))

compareHashKeyNilApart(k1, k2) ==
    IF k1.isNil # k2.isNil THEN (IF k1.isNil THEN -1 ELSE 1)
    ELSE bytesCompare(k1.bytes, k2.bytes)

compareHashKey(k1, k2) ==
    LET b1 == IF k1.isNil THEN <<>> ELSE k1.bytes
        b2 == IF k2.isNil THEN <<>> ELSE k2.bytes
    IN  bytesCompare(b1, b2)

shardIsPartOfConfigIdOnly(shard, cfg) ==
    \E i \in 1..Len(cfg.ShardDefinitions) :
        cfg.ShardDefinitions[i].ShardId = shard.ShardId

shardIsPartOfConfig(shard, cfg) ==
    \E i \in 1..Len(cfg.ShardDefinitions) :
        LET s == cfg.ShardDefinitions[i] IN
            /\ s.ShardId = shard.ShardId
            /\ compareHashKey(s.StartingHashKey, shard.StartingHashKey) = 0
            /\ compareHashKey(s.EndingHashKey, shard.EndingHashKey) = 0

-----------------------------------------------------------------------------
(* The router *)

GetConfig == config

IdleCall ==
    [pc |-> "idle", request |-> NoRequest, carried |-> TRUE, stale |-> FALSE,
     follow |-> "none"]

\* What an RPC returned: (response, err) of Export, (cfg, err) of
\* GetShardingConfig.  `carried` tells whether the call's metadata carried
\* the expected value of every required header, `stale` whether the map
\* changed while the call was served, `follow` how the call follows the RPC
\* finished before it began.
Returned(rpc, req, carried, err, resp, cfg, stale, follow) ==
    [rpc |-> rpc, request |-> req, carried |-> carried, err |-> err,
     response |-> resp, cfg |-> cfg, stale |-> stale, follow |-> follow]

NothingReturned ==
    Returned("none", NoRequest, TRUE, NoError, NoResponse, NilConfig, FALSE, "none")

\* Metadata carries, for every required header, the expected value.
Carries(ctx) ==
    \A k \in DOMAIN headers : \E j \in 1..Len(ctx.md[k]) : ctx.md[k][j] = headers[k]

InFlight == {i \in Slots : calls[i].pc # "idle"}

\* The claims' reading of "request.shard is a ShardDefinition of the map":
\* the same shard_id, the same bytes of starting_key and of ending_key.
ExactMember(shard, cfg) ==
    \E j \in 1..Len(cfg.ShardDefinitions) :
        /\ cfg.ShardDefinitions[j].ShardId = shard.ShardId
        /\ cfg.ShardDefinitions[j].StartingHashKey.bytes = shard.StartingHashKey.bytes
        /\ cfg.ShardDefinitions[j].EndingHashKey.bytes = shard.EndingHashKey.bytes

\* How a request that begins now follows the RPC that finished last (`last`
\* is forgotten when the map changes, so the map is still the one that RPC
\* was served with): "resubmit" repeats a request answered OK; "retry"
\* re-issues the record of a request answered SHARD_CONFIG_MISTMATCH with a
\* shard taken from the attached map M, the router's map being non-empty and
\* M being that map; "retryOther" is the same with M another map.
Follows(req) ==
    IF last.rpc # "Export" \/ ~last.err.isNil \/ last.stale THEN "none"
    ELSE IF last.response.ResultCode = "OK"
         THEN (IF req = last.request THEN "resubmit" ELSE "none")
    ELSE IF /\ req.Record = last.request.Record
            /\ Len(config.ShardDefinitions) > 0
            /\ ExactMember(req.Shard, last.response.ShardingConfig)
         THEN (IF last.response.ShardingConfig = config THEN "retry" ELSE "retryOther")
    ELSE "none"

RouterInit ==
    /\ headers \in HeaderConfigs
    /\ RandomServerError \in BOOLEAN
    /\ config = EmptyConfig
    /\ nextResponseCode = "OK"
    /\ nextResponseShardingConfig = NilConfig
    /\ requests = <<>>
    /\ records = <<>>
    /\ calls = [i \in Slots |-> IdleCall]
    /\ last = NothingReturned
    /\ lastSet = EmptyConfig

\* Export, lines 48-50: the header check fails and the handler returns.
ExportRejected(ctx) ==
    /\ ~checkRequiredHeaders(ctx).isNil
    /\ last' = Returned("Export", NoRequest, Carries(ctx), checkRequiredHeaders(ctx),
                        NoResponse, NilConfig, FALSE, "none")
    /\ UNCHANGED notRouterVars
    /\ UNCHANGED <<headers, RandomServerError, config, nextResponseCode,
                   nextResponseShardingConfig, requests, records, calls, lastSet>>

\* Some call's metadata passes the header check and carries, or does not
\* carry, the expected values.
Passes(carried) ==
    \E ctx \in Metadata : checkRequiredHeaders(ctx).isNil /\ Carries(ctx) = carried

\* Export, lines 52-59: the simulated failure (rand.Float64() < 0.1 is any
\* of the two outcomes).
ExportUnavailableAfterReceive(carried, req) ==
    /\ Passes(carried)
    /\ RandomServerError
    /\ Len(requests) < MaxSink
    /\ requests' = Append(requests, req)
    /\ records' = Append(records, req.Record)
    /\ last' = Returned("Export", NoRequest, carried, ErrUnavailable,
                        NoResponse, NilConfig, FALSE, Follows(req))
    /\ UNCHANGED notRouterVars
    /\ UNCHANGED <<headers, RandomServerError, config, nextResponseCode,
                   nextResponseShardingConfig, calls, lastSet>>

ExportUnavailable(carried, req) ==
    /\ Passes(carried)
    /\ RandomServerError
    /\ last' = Returned("Export", NoRequest, carried, ErrUnavailable,
                        NoResponse, NilConfig, FALSE, Follows(req))
    /\ UNCHANGED notRouterVars
    /\ UNCHANGED <<headers, RandomServerError, config, nextResponseCode,
                   nextResponseShardingConfig, requests, records, calls, lastSet>>

\* Export, lines 48-61: the call passes both and goes on to the shard check.
\* Slots are alike: a call takes the first idle one.
ExportAdmitted(i, carried, req) ==
    /\ calls[i].pc = "idle"
    /\ \A j \in Slots : j < i => calls[j].pc # "idle"
    /\ Len(requests) + Cardinality(InFlight) < MaxSink
    /\ Passes(carried)
    /\ calls' = [calls EXCEPT ![i] =
                    [pc |-> "check", request |-> req, carried |-> carried,
                     stale |-> FALSE, follow |-> Follows(req)]]
    /\ UNCHANGED notRouterVars
    /\ UNCHANGED <<headers, RandomServerError, config, nextResponseCode,
                   nextResponseShardingConfig, requests, records, last, lastSet>>

\* Export, line 62: the map is read and the request's shard looked up in it.
ExportCheck(i) ==
    /\ calls[i].pc = "check"
    /\ calls' = [calls EXCEPT ![i].pc =
                    IF ~shardIsPartOfConfig(calls[i].request.Shard, GetConfig)
                    THEN "mismatch" ELSE "accept"]
    /\ UNCHANGED notRouterVars
    /\ UNCHANGED <<headers, RandomServerError, config, nextResponseCode,
                   nextResponseShardingConfig, requests, records, last, lastSet>>

\* The response of lines 64-67: the map is read again and attached.
mismatchResponse == ExportResponse("SHARD_CONFIG_MISTMATCH", GetConfig)

\* Export, lines 64-67 and 79.
ExportMismatch(i) ==
    /\ calls[i].pc = "mismatch"
    /\ last' = Returned("Export", calls[i].request, calls[i].carried, NoError,
                        mismatchResponse, NilConfig, calls[i].stale, calls[i].follow)
    /\ calls' = [calls EXCEPT ![i] = IdleCall]
    /\ UNCHANGED notRouterVars
    /\ UNCHANGED <<headers, RandomServerError, config, nextResponseCode,
                   nextResponseShardingConfig, requests, records, lastSet>>

\* mockServerSink.onReceive, the callback runServer registers.
onReceiveDropped(req) == UNCHANGED <<requests, records>>

onReceiveTwice(req) ==
    /\ requests' = Append(Append(requests, req), req)
    /\ records' = Append(Append(records, req.Record), req.Record)

onReceive(req) ==
    /\ requests' = Append(requests, req)
    /\ records' = Append(records, req.Record)

\* The response of lines 73-76.
acceptResponseFirstOnly ==
    IF Len(requests) = 0
    THEN ExportResponse(nextResponseCode, nextResponseShardingConfig)
    ELSE ExportResponse("SHARD_CONFIG_MISTMATCH", config)

acceptResponse == ExportResponse(nextResponseCode, nextResponseShardingConfig)

\* Export, lines 69-79: the request is handed to the callback and answered.
ExportAccept(i) ==
    /\ calls[i].pc = "accept"
    /\ onReceive(calls[i].request)
    /\ last' = Returned("Export", calls[i].request, calls[i].carried, NoError,
                        acceptResponse, NilConfig, calls[i].stale, calls[i].follow)
    /\ calls' = [calls EXCEPT ![i] = IdleCall]
    /\ UNCHANGED notRouterVars
    /\ UNCHANGED <<headers, RandomServerError, config, nextResponseCode,
                   nextResponseShardingConfig, lastSet>>

\* GetShardingConfig, lines 103-109.
GetShardingConfig(ctx) ==
    /\ last' = IF ~checkRequiredHeaders(ctx).isNil
               THEN Returned("GetShardingConfig", NoRequest, Carries(ctx),
                             checkRequiredHeaders(ctx), NoResponse, NilConfig,
                             FALSE, "none")
               ELSE Returned("GetShardingConfig", NoRequest, Carries(ctx), NoError,
                             NoResponse, GetConfig, FALSE, "none")
    /\ UNCHANGED notRouterVars
    /\ UNCHANGED <<headers, RandomServerError, config, nextResponseCode,
                   nextResponseShardingConfig, requests, records, calls, lastSet>>

\* The store of line 161.
storeConfigAppend(cfg) ==
    ShardingConfig(config.ShardDefinitions \o cfg.ShardDefinitions)

storeConfig(cfg) == cfg

\* mockServer.SetConfig, lines 158-162.  When the map changes, the history
\* notes it: calls in flight are no longer served with one map, and `last`
\* (the RPC finished last under the current map) is forgotten.
SetConfig(cfg) ==
    /\ config' = storeConfig(cfg)
    /\ lastSet' = cfg
    /\ calls' = [i \in Slots |->
                    IF calls[i].pc # "idle" /\ config' # config
                    THEN [calls[i] EXCEPT !.stale = TRUE, !.follow = "none"]
                    ELSE calls[i]]
    /\ last' = IF config' # config THEN NothingReturned ELSE last
    /\ UNCHANGED notRouterVars
    /\ UNCHANGED <<headers, RandomServerError, nextResponseCode,
                   nextResponseShardingConfig, requests, records>>

\* The fields of lines 137-138 are assigned by code of the package (the
\* tests) to script the answer of an accepted request.
SetNextResponse(code, cfg) ==
    /\ nextResponseCode' = code
    /\ nextResponseShardingConfig' = cfg
    /\ UNCHANGED notRouterVars
    /\ UNCHANGED <<headers, RandomServerError, config, requests, records, calls,
                   last, lastSet>>

RouterNext ==
    \/ \E ctx \in Metadata : ExportRejected(ctx)
    \/ \E carried \in BOOLEAN, req \in ExportRequests : ExportUnavailable(carried, req)
    \/ \E i \in Slots, carried \in BOOLEAN, req \in ExportRequests :
           ExportAdmitted(i, carried, req)
    \/ \E i \in Slots : ExportCheck(i)
    \/ \E i \in Slots : ExportMismatch(i)
    \/ \E i \in Slots : ExportAccept(i)
    \/ \E ctx \in Metadata : GetShardingConfig(ctx)
    \/ \E cfg \in Configs : SetConfig(cfg)
    \/ \E code \in ResultCodes, cfg \in {NilConfig, ConfigB} : SetNextResponse(code, cfg)

-----------------------------------------------------------------------------
(* encoderSink: the results of encoding, kept for the tests *)

\* Records the encoder sink may hold.
MaxEncodedRecords == 2

\* Spans the encoder sink may hold as failed.
MaxFailedSpans == 3

\* Spans one onFail call may report.
MaxFailedPerCall == 2

\* Spans one record may count.
MaxSpanCount == 2

\* The records handed to onReady; SpanCount is the number of spans encoded
\* in the record.
EncodedRecords == [PartitionKey : {"apple", "pear"}, SpanCount : 0..MaxSpanCount]

\* The *jaeger.Span values handed to onFail.
Spans == {"span1", "span2"}

SpanLists == UNION {[1..n -> Spans] : n \in 0..MaxFailedPerCall}

EncoderErrorCodes == {"ErrEncodingFailed", "ErrRecordTooLarge"}

NoRecord == [PartitionKey |-> "", SpanCount |-> 0]

\* A call on the sink: its name, its arguments, a bit that flips at every
\* call, and the value getSuccessSpanCount returned last (0 before its first
\* call).
EncoderCall(op, record, spans, code, successRead, flip) ==
    [op |-> op, record |-> record, spans |-> spans, code |-> code,
     successRead |-> successRead, flip |-> flip]

EncoderInit ==
    /\ successSpanCount = 0
    /\ encodedRecords = <<>>
    /\ failSpanCount = 0
    /\ failedSpans = <<>>
    /\ encoderCall = EncoderCall("none", NoRecord, <<>>, "", 0, FALSE)

\* Line 47.
addSuccessSpansOne(count, record) == count + 1

addSuccessSpans(count, record) == count + record.SpanCount

\* encoderSink.onReady, lines 39-49.
onReady(record) ==
    /\ Len(encodedRecords) < MaxEncodedRecords
    /\ successSpanCount' = addSuccessSpans(successSpanCount, record)
    /\ encodedRecords' = Append(encodedRecords, record)
    /\ encoderCall' = EncoderCall("onReady", record, <<>>, "",
                                  encoderCall.successRead, ~encoderCall.flip)
    /\ UNCHANGED <<failSpanCount, failedSpans>>
    /\ UNCHANGED notEncoderVars

\* Line 55.
addFailedSpansOne(count, spans) == count + 1

addFailedSpans(count, spans) == count + Len(spans)

\* Line 56: the items are appended; the code is not used.
appendFailedSpansAndCode(list, spans, code) == (list \o spans) \o <<code>>

appendFailedSpans(list, spans, code) == list \o spans

\* encoderSink.onFail, lines 51-57.
onFail(spans, code) ==
    /\ Len(failedSpans) + Len(spans) <= MaxFailedSpans
    /\ failSpanCount' = addFailedSpans(failSpanCount, spans)
    /\ failedSpans' = appendFailedSpans(failedSpans, spans, code)
    /\ encoderCall' = EncoderCall("onFail", NoRecord, spans, code,
                                  encoderCall.successRead, ~encoderCall.flip)
    /\ UNCHANGED <<successSpanCount, encodedRecords>>
    /\ UNCHANGED notEncoderVars

\* encoderSink.getSuccessSpanCount, lines 59-63.
getSuccessSpanCount ==
    /\ encoderCall' = EncoderCall("getSuccessSpanCount", NoRecord, <<>>, "",
                                  successSpanCount, ~encoderCall.flip)
    /\ UNCHANGED <<successSpanCount, encodedRecords, failSpanCount, failedSpans>>
    /\ UNCHANGED notEncoderVars

\* What an accessor call returned.
ReadBack(accessor, value) == [accessor |-> accessor, value |-> value]

\* encoderSink.getFailSpanCount, lines 71-75.
getFailSpanCount ==
    /\ readBack' = ReadBack("getFailSpanCount", failSpanCount)
    /\ UNCHANGED <<routerVars, encoderVars, clientVars>>
    /\ UNCHANGED <<clientCall, procs, mutexes, started, finished, passed>>
    /\ UNCHANGED pureVars

\* encoderSink.getFailedSpans, lines 77-81.
getFailedSpans ==
    /\ readBack' = ReadBack("getFailedSpans", failedSpans)
    /\ UNCHANGED <<routerVars, encoderVars, clientVars>>
    /\ UNCHANGED <<clientCall, procs, mutexes, started, finished, passed>>
    /\ UNCHANGED pureVars

EncoderNext ==
    \/ \E record \in EncodedRecords : onReady(record)
    \/ \E spans \in SpanLists, code \in EncoderErrorCodes : onFail(spans, code)
    \/ getSuccessSpanCount

-----------------------------------------------------------------------------
(* clientSink: what the export client reports, kept for the tests *)

\* Transient failures the client retries for one record.
MaxRetries == 2

\* Mismatch answers the client reconciles for one record.
MaxMismatches == 2

\* The records submitted to the client, told apart by partition key.
ClientRecords ==
    {[PartitionKey |-> "apple", SpanCount |-> 1], [PartitionKey |-> "pear", SpanCount |-> 2]}

SendErrorCodes == {"TRANSIENT_EXHAUSTED", "MISMATCH_LOOP_SUSPECTED", "FATAL_TRANSPORT_ERROR"}

ClientInit ==
    /\ responseToRecords = <<>>
    /\ responses = <<>>
    /\ failedRecords = <<>>
    /\ exports = [r \in ClientRecords |-> [state |-> "NEW", retries |-> 0, mismatches |-> 0]]

\* clientSink.onSendResponse, lines 164-173.
onSendResponse(record, response) ==
    /\ responseToRecords' = Append(responseToRecords, record)
    /\ responses' = Append(responses, response)
    /\ UNCHANGED failedRecords

onSendFailAndResponse(record, code) ==
    /\ failedRecords' = Append(failedRecords, record)
    /\ responseToRecords' = Append(responseToRecords, record)
    /\ responses' = Append(responses, NoResponse)

\* Line 182: the record is appended; the code is not used.
appendFailedRecord(list, record, code) == Append(list, record)

\* clientSink.onSendFail, lines 175-183.
onSendFail(record, code) ==
    /\ failedRecords' = appendFailedRecord(failedRecords, record, code)
    /\ UNCHANGED <<responseToRecords, responses>>

\* clientSink.getResponseToRecords, lines 185-189.
getResponseToRecords ==
    /\ readBack' = ReadBack("getResponseToRecords", responseToRecords)
    /\ UNCHANGED <<routerVars, encoderVars, clientVars>>
    /\ UNCHANGED <<clientCall, procs, mutexes, started, finished, passed>>
    /\ UNCHANGED pureVars

\* clientSink.getResponses, lines 191-195.
getResponses ==
    /\ readBack' = ReadBack("getResponses", responses)
    /\ UNCHANGED <<routerVars, encoderVars, clientVars>>
    /\ UNCHANGED <<clientCall, procs, mutexes, started, finished, passed>>
    /\ UNCHANGED pureVars

\* What the accessors of the client sink return.
ClientAccessors ==
    [getResponseToRecords |-> responseToRecords, getResponses |-> responses]

\* Failed records the client sink may hold when it is called directly.
MaxClientSink == 2

\* Responses the client sink may hold when it is called directly.
MaxResponded == 1

\* A call on the client sink: its name, its arguments, a bit that flips at
\* every call.
ClientCall(op, record, response, code, flip) ==
    [op |-> op, record |-> record, response |-> response, code |-> code, flip |-> flip]

\* The responses the callbacks are handed.
ClientResponses ==
    {ExportResponse("OK", NilConfig), ExportResponse("SHARD_CONFIG_MISTMATCH", ConfigB)}

\* Goroutines that call the sinks at once.
MaxProcs == 3

\* Calls the goroutines make in all.
MaxTestCalls == 3

Procs == 1..MaxProcs

\* A call of a sink's method by a goroutine.
TestCall(op, request, record, response, code) ==
    [op |-> op, request |-> request, record |-> record, response |-> response,
     code |-> code]

TestCalls ==
    {TestCall("onReceive", req, req.Record, NoResponse, "") :
        req \in {ExportRequest(Shard1, Record1), ExportRequest(Shard2Nil, Record2)}}
    \cup {TestCall("onSendResponse", NoRequest, r, response, "") :
        r \in ClientRecords, response \in ClientResponses}
    \cup {TestCall("onSendFail", NoRequest, r, NoResponse, "FATAL_TRANSPORT_ERROR") :
        r \in ClientRecords}
    \cup {TestCall(accessor, NoRequest, NoRecord, NoResponse, "") :
        accessor \in {"GetRecords", "getResponseToRecords", "getResponses"}}

\* The mutex a method locks: that of its sink.
MutexOf(op) == IF op \in {"onReceive", "GetRecords"} THEN "server" ELSE "client"

IdleProc == [pc |-> "idle", call |-> TestCall("none", NoRequest, NoRecord, NoResponse, "")]

TestInit ==
    /\ clientCall = ClientCall("none", NoRecord, NoResponse, "", FALSE)
    /\ readBack = ReadBack("none", 0)
    /\ procs = [i \in Procs |-> IdleProc]
    /\ mutexes = [m \in {"server", "client"} |-> 0]
    /\ started = 0
    /\ finished = [op \in {"onReceive", "onSendResponse", "onSendFail"} |-> 0]
    /\ passed = <<>>

\* A goroutine calls a method of a sink.
Begin(i, call) ==
    /\ procs[i].pc = "idle"
    /\ started < MaxTestCalls
    /\ started' = started + 1
    /\ procs' = [procs EXCEPT ![i] = [pc |-> "lock", call |-> call]]
    /\ UNCHANGED <<routerVars, encoderVars, clientVars>>
    /\ UNCHANGED <<clientCall, readBack, mutexes, finished, passed>>
    /\ UNCHANGED pureVars

LockableAlways(m) == TRUE

\* sync.Mutex.Lock returns when no goroutine holds the mutex.
Lockable(m) == mutexes[m] = 0

\* mutex.Lock(): mock_server.go line 205 and 212, part_001 lines 169, 180,
\* 186 and 192.
Lock(i) ==
    /\ procs[i].pc = "lock"
    /\ Lockable(MutexOf(procs[i].call.op))
    /\ mutexes' = [mutexes EXCEPT ![MutexOf(procs[i].call.op)] = i]
    /\ procs' = [procs EXCEPT ![i].pc = "first"]
    /\ UNCHANGED <<routerVars, encoderVars, clientVars>>
    /\ UNCHANGED <<clientCall, readBack, started, finished, passed>>
    /\ UNCHANGED pureVars

\* mockServerSink.onReceive, line 207.
AppendRequests(i) ==
    /\ procs[i].pc = "first" /\ procs[i].call.op = "onReceive"
    /\ requests' = Append(requests, procs[i].call.request)
    /\ procs' = [procs EXCEPT ![i].pc = "second"]
    /\ UNCHANGED <<headers, RandomServerError, config, nextResponseCode,
                   nextResponseShardingConfig, records, calls, last, lastSet>>
    /\ UNCHANGED <<encoderVars, clientVars>>
    /\ UNCHANGED <<clientCall, readBack, mutexes, started, finished, passed>>
    /\ UNCHANGED pureVars

\* mockServerSink.onReceive, line 208.
AppendRecords(i) ==
    /\ procs[i].pc = "second" /\ procs[i].call.op = "onReceive"
    /\ records' = Append(records, procs[i].call.request.Record)
    /\ procs' = [procs EXCEPT ![i].pc = "unlock"]
    /\ UNCHANGED <<headers, RandomServerError, config, nextResponseCode,
                   nextResponseShardingConfig, requests, calls, last, lastSet>>
    /\ UNCHANGED <<encoderVars, clientVars>>
    /\ UNCHANGED <<clientCall, readBack, mutexes, started, finished, passed>>
    /\ UNCHANGED pureVars

\* clientSink.onSendResponse, line 171.
AppendResponseToRecords(i) ==
    /\ procs[i].pc = "first" /\ procs[i].call.op = "onSendResponse"
    /\ responseToRecords' = Append(responseToRecords, procs[i].call.record)
    /\ passed' = Append(passed, <<procs[i].call.record, procs[i].call.response>>)
    /\ procs' = [procs EXCEPT ![i].pc = "second"]
    /\ UNCHANGED <<routerVars, encoderVars, responses, failedRecords, exports>>
    /\ UNCHANGED <<clientCall, readBack, mutexes, started, finished>>
    /\ UNCHANGED pureVars

\* clientSink.onSendResponse, line 172.
AppendResponses(i) ==
    /\ procs[i].pc = "second" /\ procs[i].call.op = "onSendResponse"
    /\ responses' = Append(responses, procs[i].call.response)
    /\ procs' = [procs EXCEPT ![i].pc = "unlock"]
    /\ UNCHANGED <<routerVars, encoderVars, responseToRecords, failedRecords, exports>>
    /\ UNCHANGED <<clientCall, readBack, mutexes, started, finished, passed>>
    /\ UNCHANGED pureVars

\* clientSink.onSendFail, line 182.
AppendFailedRecords(i) ==
    /\ procs[i].pc = "first" /\ procs[i].call.op = "onSendFail"
    /\ failedRecords' =
          appendFailedRecord(failedRecords, procs[i].call.record, procs[i].call.code)
    /\ procs' = [procs EXCEPT ![i].pc = "unlock"]
    /\ UNCHANGED <<routerVars, encoderVars, responseToRecords, responses, exports>>
    /\ UNCHANGED <<clientCall, readBack, mutexes, started, finished, passed>>
    /\ UNCHANGED pureVars

\* The return statement of an accessor: mock_server.go line 214, part_001
\* lines 188 and 194.
Read(i) ==
    /\ procs[i].pc = "first"
    /\ procs[i].call.op \in {"GetRecords", "getResponseToRecords", "getResponses"}
    /\ readBack' = ReadBack(procs[i].call.op,
                            CASE procs[i].call.op = "GetRecords" -> records
                              [] procs[i].call.op = "getResponseToRecords" -> responseToRecords
                              [] OTHER -> responses)
    /\ procs' = [procs EXCEPT ![i].pc = "unlock"]
    /\ UNCHANGED <<routerVars, encoderVars, clientVars>>
    /\ UNCHANGED <<clientCall, mutexes, started, finished, passed>>
    /\ UNCHANGED pureVars

\* The deferred mutex.Unlock(); the method returns.
Unlock(i) ==
    /\ procs[i].pc = "unlock"
    /\ mutexes' = [mutexes EXCEPT ![MutexOf(procs[i].call.op)] = 0]
    /\ finished' = IF procs[i].call.op \in DOMAIN finished
                    THEN [finished EXCEPT ![procs[i].call.op] = @ + 1]
                    ELSE finished
    /\ procs' = [procs EXCEPT ![i] = IdleProc]
    /\ UNCHANGED <<routerVars, encoderVars, clientVars>>
    /\ UNCHANGED <<clientCall, readBack, started, passed>>
    /\ UNCHANGED pureVars

\* The sink's callbacks called by the client under test, at any time.
SendResponse(record, response) ==
    /\ Len(responseToRecords) < MaxResponded
    /\ onSendResponse(record, response)
    /\ clientCall' = ClientCall("onSendResponse", record, response, "", ~clientCall.flip)
    /\ UNCHANGED <<routerVars, encoderVars, exports>>
    /\ UNCHANGED <<readBack, procs, mutexes, started, finished, passed>>
    /\ UNCHANGED pureVars

SendFail(record, code) ==
    /\ Len(failedRecords) < MaxClientSink
    /\ onSendFail(record, code)
    /\ clientCall' = ClientCall("onSendFail", record, NoResponse, code, ~clientCall.flip)
    /\ UNCHANGED <<routerVars, encoderVars, exports>>
    /\ UNCHANGED <<readBack, procs, mutexes, started, finished, passed>>
    /\ UNCHANGED pureVars

\* The export client: one state machine per record, ROUTING, SENDING,
\* RECONCILING, BACKING_OFF, DONE_OK, DONE_FAILED.
ClientSubmit(r) ==
    /\ exports[r].state = "NEW"
    /\ UNCHANGED notClientVars
    /\ exports' = [exports EXCEPT ![r].state = "ROUTING"]
    /\ UNCHANGED <<responseToRecords, responses, failedRecords>>

\* The owning shard is looked up in the cached map and the request issued.
ClientRoute(r) ==
    /\ exports[r].state = "ROUTING"
    /\ UNCHANGED notClientVars
    /\ exports' = [exports EXCEPT ![r].state = "SENDING"]
    /\ UNCHANGED <<responseToRecords, responses, failedRecords>>

\* On OK: report success to the sink; done.
ClientOK(r) ==
    /\ exports[r].state = "SENDING"
    /\ UNCHANGED notClientVars
    /\ exports' = [exports EXCEPT ![r].state = "DONE_OK"]
    /\ onSendResponse(r, ExportResponse("OK", NilConfig))

\* On SHARD_CONFIG_MISMATCH: replace the cached map, then route again; a
\* remote that never stabilizes is reported as MISMATCH_LOOP_SUSPECTED.
ClientMismatch(r) ==
    /\ exports[r].state = "SENDING"
    /\ UNCHANGED notClientVars
    /\ IF exports[r].mismatches < MaxMismatches
       THEN /\ exports' = [exports EXCEPT ![r].state = "RECONCILING",
                                          ![r].mismatches = @ + 1]
            /\ UNCHANGED <<responseToRecords, responses, failedRecords>>
       ELSE /\ exports' = [exports EXCEPT ![r].state = "DONE_FAILED"]
            /\ onSendFail(r, "MISMATCH_LOOP_SUSPECTED")

ClientReconciled(r) ==
    /\ exports[r].state = "RECONCILING"
    /\ UNCHANGED notClientVars
    /\ exports' = [exports EXCEPT ![r].state = "ROUTING"]
    /\ UNCHANGED <<responseToRecords, responses, failedRecords>>

\* On a transient remote failure: back off and retry, up to the budget.
ClientTransient(r) ==
    /\ exports[r].state = "SENDING"
    /\ UNCHANGED notClientVars
    /\ IF exports[r].retries < MaxRetries
       THEN /\ exports' = [exports EXCEPT ![r].state = "BACKING_OFF",
                                          ![r].retries = @ + 1]
            /\ UNCHANGED <<responseToRecords, responses, failedRecords>>
       ELSE /\ exports' = [exports EXCEPT ![r].state = "DONE_FAILED"]
            /\ onSendFail(r, "TRANSIENT_EXHAUSTED")

ClientBackedOff(r) ==
    /\ exports[r].state = "BACKING_OFF"
    /\ UNCHANGED notClientVars
    /\ exports' = [exports EXCEPT ![r].state = "SENDING"]
    /\ UNCHANGED <<responseToRecords, responses, failedRecords>>

\* On a non-retryable failure: report the failure to the sink.
ClientFatal(r) ==
    /\ exports[r].state = "SENDING"
    /\ UNCHANGED notClientVars
    /\ exports' = [exports EXCEPT ![r].state = "DONE_FAILED"]
    /\ onSendFail(r, "FATAL_TRANSPORT_ERROR")

\* Cancellation of the enclosing scope: a record not yet resolved is
\* reported as failed.
ClientCancel(r) ==
    /\ exports[r].state \in {"ROUTING", "SENDING", "RECONCILING", "BACKING_OFF"}
    /\ UNCHANGED notClientVars
    /\ exports' = [exports EXCEPT ![r].state = "DONE_FAILED"]
    /\ onSendFail(r, "FATAL_TRANSPORT_ERROR")

ClientNext ==
    \/ \E r \in ClientRecords : ClientSubmit(r)
    \/ \E r \in ClientRecords : ClientRoute(r)
    \/ \E r \in ClientRecords : ClientOK(r)
    \/ \E r \in ClientRecords : ClientMismatch(r)
    \/ \E r \in ClientRecords : ClientReconciled(r)
    \/ \E r \in ClientRecords : ClientTransient(r)
    \/ \E r \in ClientRecords : ClientBackedOff(r)
    \/ \E r \in ClientRecords : ClientFatal(r)
    \/ \E r \in ClientRecords : ClientCancel(r)

-----------------------------------------------------------------------------
(* checkRequiredHeaders as a function of the configured headers and of the
   metadata of the call *)

\* The values a key may hold in the metadata of a call.
HeaderValues ==
    {<<>>, <<"secret">>, <<"wrong">>, <<"secret", "wrong">>, <<"wrong", "secret">>,
     <<"secret", "secret">>}

\* The contexts of a call: without metadata, or with any values under the
\* two keys.
Contexts ==
    {NoMetadata} \cup {IncomingMetadata(a, b) : a \in HeaderValues, b \in HeaderValues}

\* The headers maps Listen may be handed: none, one key, both keys.
RequiredHeaders ==
    {[k \in names |-> "secret"] : names \in SUBSET HeaderNames}

Checked(called, ctx, err) == [called |-> called, ctx |-> ctx, err |-> err]

\* A call of checkRequiredHeaders, lines 111-129.
CheckRequiredHeaders(ctx) ==
    /\ checked' = Checked(TRUE, ctx, checkRequiredHeaders(ctx))
    /\ UNCHANGED <<routerVars, encoderVars, clientVars, testVars>>
    /\ UNCHANGED <<sending, receiver, waiting>>

-----------------------------------------------------------------------------
(* A sender that resubmits its request after every Unavailable answer *)

\* The requests a sender may have: any shard of the scenario, either record.
SenderRequests ==
    {ExportRequest(shard, record) :
        shard \in {Shard1, Shard2, Shard2All, Shard2Nil, Shard1All},
        record \in {Record1, Record2}}

\* The sender's latest Export was answered OK.
AnsweredOK ==
    /\ last.rpc = "Export"
    /\ last.err.isNil
    /\ last.response.ResultCode = "OK"

\* The sender has no call in flight and submits: for the first time, again
\* after Unavailable, or once more after OK.
SenderReady ==
    /\ InFlight = {}
    /\ Len(requests) < MaxSink
    /\ last.rpc = "none" \/ last.err = ErrUnavailable \/ AnsweredOK

\* The submission ends at the simulated failure of lines 52-59.
SenderFails == SenderReady /\ ExportUnavailable(TRUE, sending)

\* The submission passes line 52.
SenderAdmitted == SenderReady /\ \E i \in Slots : ExportAdmitted(i, TRUE, sending)

-----------------------------------------------------------------------------
(* opencensusreceiver: Config.buildOptions *)

\* Unsigned integers of 64 bits are kept as four digits of base 2^16, the
\* lowest first, so that the wrap-around of Go's arithmetic is computed and
\* not assumed.
Limb == 65536

\* x * k on digits, with the carry c coming in; the carry out of the highest
\* digit is dropped, as the multiplication of a uint64 drops it.
RECURSIVE mulLimbs(_, _, _)
mulLimbs(x, k, c) ==
    IF x = <<>> THEN <<>>
    ELSE LET t == Head(x) * k + c
         IN  <<t % Limb>> \o mulLimbs(Tail(x), k, t \div Limb)

\* The uint64 product of line 123: (x * 1024) * 1024, each modulo 2^64.
mebibytesToBytes(x) == mulLimbs(mulLimbs(x, 1024, 0), 1024, 0)

\* Go's int: 64 bits, or 32 bits on a 32-bit platform.
IntSizes == {32, 64}

\* int(u), line 123: the low intSize bits of u, read in two's complement.
ToInt(u, intSize) ==
    LET bits == IF intSize = 64 THEN u ELSE SubSeq(u, 1, 2)
    IN  [neg |-> bits[Len(bits)] >= Limb \div 2, bits |-> bits]

\* The options, as data: what was asked of the transport layer.
ServerOption(name, value) == [name |-> name, value |-> value]

WithNoopOption == [with |-> "Noop", options |-> <<>>]

WithGRPCServerOptions(options) == [with |-> "GRPCServerOptions", options |-> options]

WithTraceReceiverOptions(options) == [with |-> "TraceReceiverOptions", options |-> options]

\* grpc.Creds of the certificate and key loaded from the two files.
Creds(tlsCreds) == ServerOption("Creds", <<tlsCreds.CertFile, tlsCreds.KeyFile>>)

NoOption == [with |-> "nil", options |-> <<>>]

\* tlsCredentials.ToOpenCensusReceiverServerOption, lines 156-167.  Whether
\* credentials.NewServerTLSFromFile loads the two files is up to the file
\* system: `loads` of the input.
ToOpenCensusReceiverServerOption(tlsCreds) ==
    IF tlsCreds.isNil
    THEN [opt |-> WithNoopOption, ok |-> FALSE, err |-> ""]
    ELSE IF ~tlsCreds.loads
    THEN [opt |-> NoOption, ok |-> FALSE, err |-> "NewServerTLSFromFile"]
    ELSE [opt |-> WithGRPCServerOptions(<<Creds(tlsCreds)>>), ok |-> TRUE, err |-> ""]

\* Config.traceReceiverOptions, lines 107-118.
traceReceiverOptions(rOpts) ==
    (IF rOpts.EnableBackPressure THEN <<ServerOption("WithBackPressure", TRUE)>> ELSE <<>>)
    \o (IF rOpts.MaxServerStreams > 0
        THEN <<ServerOption("WithMaxServerStream", rOpts.MaxServerStreams)>> ELSE <<>>)

\* A uint64 is not zero.
Positive64(x) == \E d \in 1..Len(x) : x[d] > 0

grpcServerOptionsNoEnforcement(rOpts, intSize) ==
    (IF Positive64(rOpts.MaxRecvMsgSizeMiB)
     THEN <<ServerOption("MaxRecvMsgSize",
                         ToInt(mebibytesToBytes(rOpts.MaxRecvMsgSizeMiB), intSize))>>
     ELSE <<>>)
    \o (IF rOpts.MaxConcurrentStreams > 0
        THEN <<ServerOption("MaxConcurrentStreams", rOpts.MaxConcurrentStreams)>>
        ELSE <<>>)
    \o (IF ~rOpts.Keepalive.isNil /\ ~rOpts.Keepalive.ServerParameters.isNil
        THEN <<ServerOption("KeepaliveParams", rOpts.Keepalive.ServerParameters)>>
        ELSE <<>>)

\* Config.grpcServerOptions, lines 120-149.
grpcServerOptions(rOpts, intSize) ==
    (IF Positive64(rOpts.MaxRecvMsgSizeMiB)
     THEN <<ServerOption("MaxRecvMsgSize",
                         ToInt(mebibytesToBytes(rOpts.MaxRecvMsgSizeMiB), intSize))>>
     ELSE <<>>)
    \o (IF rOpts.MaxConcurrentStreams > 0
        THEN <<ServerOption("MaxConcurrentStreams", rOpts.MaxConcurrentStreams)>>
        ELSE <<>>)
    \o (IF ~rOpts.Keepalive.isNil /\ ~rOpts.Keepalive.ServerParameters.isNil
        THEN <<ServerOption("KeepaliveParams", rOpts.Keepalive.ServerParameters)>>
        ELSE <<>>)
    \o (IF ~rOpts.Keepalive.isNil /\ ~rOpts.Keepalive.EnforcementPolicy.isNil
        THEN <<ServerOption("KeepaliveEnforcementPolicy", rOpts.Keepalive.EnforcementPolicy)>>
        ELSE <<>>)

\* Config.buildOptions, lines 85-105: (opts, err).
buildOptions(rOpts, intSize) ==
    LET tls == ToOpenCensusReceiverServerOption(rOpts.TLSCredentials)
        grpcOpts == grpcServerOptions(rOpts, intSize)
        traceOpts == traceReceiverOptions(rOpts)
    IN  IF tls.err # ""
        THEN [opts |-> <<>>, err |-> "OpenCensus receiver TLS Credentials"]
        ELSE [opts |-> (IF tls.ok THEN <<tls.opt>> ELSE <<>>)
                       \o (IF Len(grpcOpts) > 0
                           THEN <<WithGRPCServerOptions(grpcOpts)>> ELSE <<>>)
                       \o (IF Len(traceOpts) > 0
                           THEN <<WithTraceReceiverOptions(traceOpts)>> ELSE <<>>),
              err |-> ""]

\* The configurations buildOptions is called with.
NilTLSCredentials == [isNil |-> TRUE, CertFile |-> "", KeyFile |-> "", loads |-> FALSE]

TLSCredentialsSet ==
    {NilTLSCredentials}
    \cup {[isNil |-> FALSE, CertFile |-> "cert.pem", KeyFile |-> "key.pem", loads |-> l] :
            l \in BOOLEAN}

NilServerParameters ==
    [isNil |-> TRUE, MaxConnectionIdle |-> 0, MaxConnectionAge |-> 0,
     MaxConnectionAgeGrace |-> 0, Time |-> 0, Timeout |-> 0]

ServerParametersSet ==
    {NilServerParameters,
     [isNil |-> FALSE, MaxConnectionIdle |-> 11, MaxConnectionAge |-> 12,
      MaxConnectionAgeGrace |-> 13, Time |-> 30, Timeout |-> 5]}

NilEnforcementPolicy == [isNil |-> TRUE, MinTime |-> 0, PermitWithoutStream |-> FALSE]

EnforcementPolicySet ==
    {NilEnforcementPolicy, [isNil |-> FALSE, MinTime |-> 10, PermitWithoutStream |-> TRUE]}

NilKeepalive ==
    [isNil |-> TRUE, ServerParameters |-> NilServerParameters,
     EnforcementPolicy |-> NilEnforcementPolicy]

KeepaliveSet ==
    {NilKeepalive}
    \cup {[isNil |-> FALSE, ServerParameters |-> sp, EnforcementPolicy |-> ep] :
            sp \in ServerParametersSet, ep \in EnforcementPolicySet}

\* Values of MaxRecvMsgSizeMiB: 0, 1, 3, 2047, 2048, 2^43 - 1, 2^43, 2^44
\* and 2^64 - 1.
MaxRecvMsgSizes ==
    {<<0, 0, 0, 0>>, <<1, 0, 0, 0>>, <<3, 0, 0, 0>>, <<2047, 0, 0, 0>>,
     <<2048, 0, 0, 0>>, <<65535, 65535, 2047, 0>>, <<0, 0, 2048, 0>>,
     <<0, 0, 4096, 0>>, <<65535, 65535, 65535, 65535>>}

ReceiverConfigs ==
    [TLSCredentials : TLSCredentialsSet,
     Keepalive : KeepaliveSet,
     MaxRecvMsgSizeMiB : MaxRecvMsgSizes,
     MaxConcurrentStreams : {0, 16},
     EnableBackPressure : BOOLEAN,
     MaxServerStreams : {0, 8}]

\* The zero value of Config.
ZeroConfig ==
    [TLSCredentials |-> NilTLSCredentials, Keepalive |-> NilKeepalive,
     MaxRecvMsgSizeMiB |-> <<0, 0, 0, 0>>, MaxConcurrentStreams |-> 0,
     EnableBackPressure |-> FALSE, MaxServerStreams |-> 0]

Receiver(cfg, intSize, built, opts, err) ==
    [cfg |-> cfg, intSize |-> intSize, built |-> built, opts |-> opts, err |-> err]

\* buildOptions is called on the configuration.
BuildOptions ==
    /\ ~receiver.built
    /\ receiver' = Receiver(receiver.cfg, receiver.intSize, TRUE,
                            buildOptions(receiver.cfg, receiver.intSize).opts,
                            buildOptions(receiver.cfg, receiver.intSize).err)
    /\ UNCHANGED <<routerVars, encoderVars, clientVars, testVars>>
    /\ UNCHANGED <<checked, sending, waiting>>

-----------------------------------------------------------------------------
(* WaitForN *)

\* Times are in milliseconds.
\* The first waiting interval, line 91.
StartInterval == 5

\* The interval from which the waiting interval is no longer doubled, line 101.
IntervalLimit == 500

\* The duration WaitFor passes, line 116.
WaitForDuration == 10000

\* The durations WaitForN is called with.
WaitDurations == {0, 100, 1000, WaitForDuration}

\* By how much a timer may fire late.
MaxLate == 1

Waiting(pc, waitInterval, elapsed, duration, result) ==
    [pc |-> pc, waitInterval |-> waitInterval, elapsed |-> elapsed,
     duration |-> duration, result |-> result]

\* Lines 88-91: the start time is taken, the interval set.
WaitForN ==
    /\ waiting.pc = "idle"
    /\ waiting' = [waiting EXCEPT !.pc = "cond", !.waitInterval = StartInterval,
                                   !.elapsed = 0]
    /\ UNCHANGED <<routerVars, encoderVars, clientVars, testVars>>
    /\ UNCHANGED <<checked, sending, receiver>>

\* Lines 94-96: cond() is evaluated.
WaitCond(c) ==
    /\ waiting.pc = "cond"
    /\ waiting' = IF c THEN [waiting EXCEPT !.pc = "done", !.result = "true"]
                   ELSE [waiting EXCEPT !.pc = "sleep"]
    /\ UNCHANGED <<routerVars, encoderVars, clientVars, testVars>>
    /\ UNCHANGED <<checked, sending, receiver>>

\* Line 98: <-time.After(waitInterval); the timer fires no sooner.
WaitSleep(late) ==
    /\ waiting.pc = "sleep"
    /\ waiting' = [waiting EXCEPT !.pc = "grow",
                                   !.elapsed = @ + waiting.waitInterval + late]
    /\ UNCHANGED <<routerVars, encoderVars, clientVars, testVars>>
    /\ UNCHANGED <<checked, sending, receiver>>

\* Lines 101-103.
nextInterval(waitInterval) ==
    IF waitInterval < IntervalLimit THEN waitInterval * 2 ELSE waitInterval

WaitGrow ==
    /\ waiting.pc = "grow"
    /\ waiting' = [waiting EXCEPT !.pc = "check",
                                   !.waitInterval = nextInterval(waiting.waitInterval)]
    /\ UNCHANGED <<routerVars, encoderVars, clientVars, testVars>>
    /\ UNCHANGED <<checked, sending, receiver>>

\* Lines 105-110: the time is out, or the loop goes on.
WaitCheck ==
    /\ waiting.pc = "check"
    /\ waiting' = IF waiting.elapsed > waiting.duration
                   THEN [waiting EXCEPT !.pc = "done", !.result = "false"]
                   ELSE [waiting EXCEPT !.pc = "cond"]
    /\ UNCHANGED <<routerVars, encoderVars, clientVars, testVars>>
    /\ UNCHANGED <<checked, sending, receiver>>

PureInit ==
    /\ checked = Checked(FALSE, NoMetadata, NoError)
    /\ sending = NoRequest
    /\ receiver = Receiver(ZeroConfig, 64, FALSE, <<>>, "")
    /\ waiting = Waiting("idle", 0, 0, 0, "none")

-----------------------------------------------------------------------------
(* Specifications *)

vars == <<routerVars, encoderVars, clientVars, testVars, pureVars>>

Init == RouterInit /\ EncoderInit /\ ClientInit /\ TestInit /\ PureInit

\* The router under concurrent RPCs, rebalancing and scripted answers.
Next == RouterNext

Spec == Init /\ [][Next]_vars

\* The sinks are used apart from the router: it stays as constructed, with no
\* required headers and no simulated failure.
InitSinks == Init /\ headers = NoHeaders /\ RandomServerError = FALSE

\* The encoder sink under any sequence of calls.
NextEncoder == EncoderNext

SpecEncoder == InitSinks /\ [][NextEncoder]_vars

\* The client sink under the export client's completions.
NextClient == ClientNext

SpecClient == InitSinks /\ [][NextClient]_vars

\* The failure callbacks of the two sinks and the accessors, called directly.
NextFailures ==
    \/ \E spans \in SpanLists, code \in EncoderErrorCodes : onFail(spans, code)
    \/ getFailSpanCount
    \/ getFailedSpans
    \/ \E r \in ClientRecords, response \in ClientResponses : SendResponse(r, response)
    \/ \E r \in ClientRecords, code \in SendErrorCodes : SendFail(r, code)
    \/ getResponseToRecords
    \/ getResponses

SpecFailures == InitSinks /\ [][NextFailures]_vars

\* The sinks called by several goroutines at once.
NextConcurrent ==
    \/ \E i \in Procs, call \in TestCalls : Begin(i, call)
    \/ \E i \in Procs : Lock(i)
    \/ \E i \in Procs : AppendRequests(i)
    \/ \E i \in Procs : AppendRecords(i)
    \/ \E i \in Procs : AppendResponseToRecords(i)
    \/ \E i \in Procs : AppendResponses(i)
    \/ \E i \in Procs : AppendFailedRecords(i)
    \/ \E i \in Procs : Read(i)
    \/ \E i \in Procs : Unlock(i)

SpecConcurrent == InitSinks /\ [][NextConcurrent]_vars

\* checkRequiredHeaders on any context, for a server listening with any
\* set of required headers.
InitHeaders ==
    /\ headers \in RequiredHeaders
    /\ RandomServerError = FALSE
    /\ config = EmptyConfig
    /\ nextResponseCode = "OK"
    /\ nextResponseShardingConfig = NilConfig
    /\ requests = <<>>
    /\ records = <<>>
    /\ calls = [i \in Slots |-> IdleCall]
    /\ last = NothingReturned
    /\ lastSet = EmptyConfig
    /\ EncoderInit /\ ClientInit /\ TestInit /\ PureInit

NextHeaders == \E ctx \in Contexts : CheckRequiredHeaders(ctx)

SpecHeaders == InitHeaders /\ [][NextHeaders]_vars

\* buildOptions on any configuration, on a platform of either int size.
InitReceiver ==
    /\ RouterInit /\ headers = NoHeaders /\ RandomServerError = FALSE
    /\ EncoderInit /\ ClientInit /\ TestInit
    /\ checked = Checked(FALSE, NoMetadata, NoError)
    /\ sending = NoRequest
    /\ receiver \in {Receiver(cfg, intSize, FALSE, <<>>, "") :
                        cfg \in ReceiverConfigs, intSize \in IntSizes}
    /\ waiting = Waiting("idle", 0, 0, 0, "none")

NextReceiver == BuildOptions

SpecReceiver == InitReceiver /\ [][NextReceiver]_vars

\* WaitForN with any condition and any of the durations.
InitWait ==
    /\ RouterInit /\ headers = NoHeaders /\ RandomServerError = FALSE
    /\ EncoderInit /\ ClientInit /\ TestInit
    /\ checked = Checked(FALSE, NoMetadata, NoError)
    /\ sending = NoRequest
    /\ receiver = Receiver(ZeroConfig, 64, FALSE, <<>>, "")
    /\ waiting \in {Waiting("idle", 0, 0, d, "none") : d \in WaitDurations}

NextWait ==
    \/ WaitForN
    \/ \E c \in BOOLEAN : WaitCond(c)
    \/ \E late \in 0..MaxLate : WaitSleep(late)
    \/ WaitGrow
    \/ WaitCheck

SpecWait == InitWait /\ [][NextWait]_vars

\* One sender and a router whose map is stable.  The handlers are goroutines
\* that run on; the draw of line 52 does not come out below 0.1 forever.
InitDelivery ==
    /\ headers \in HeaderConfigs
    /\ RandomServerError \in BOOLEAN
    /\ config \in {ConfigA, ConfigB}
    /\ lastSet = config
    /\ nextResponseCode = "OK"
    /\ nextResponseShardingConfig = NilConfig
    /\ requests = <<>>
    /\ records = <<>>
    /\ calls = [i \in Slots |-> IdleCall]
    /\ last = NothingReturned
    /\ EncoderInit /\ ClientInit /\ TestInit
    /\ checked = Checked(FALSE, NoMetadata, NoError)
    /\ sending \in SenderRequests
    /\ receiver = Receiver(ZeroConfig, 64, FALSE, <<>>, "")
    /\ waiting = Waiting("idle", 0, 0, 0, "none")

NextDelivery ==
    \/ SenderFails
    \/ SenderAdmitted
    \/ \E i \in Slots : ExportCheck(i)
    \/ \E i \in Slots : ExportMismatch(i)
    \/ \E i \in Slots : ExportAccept(i)
    \/ \E code \in ResultCodes, cfg \in {NilConfig, ConfigB} : SetNextResponse(code, cfg)

SpecDelivery ==
    /\ InitDelivery
    /\ [][NextDelivery]_vars
    /\ WF_vars(SenderAdmitted)
    /\ \A i \in Slots :
          WF_vars(ExportCheck(i)) /\ WF_vars(ExportMismatch(i)) /\ WF_vars(ExportAccept(i))

-----------------------------------------------------------------------------
(* Properties of the router *)

HeadersConfigured == Cardinality(DOMAIN headers) > 0

\* The handler in slot i returns in this step.
Finishes(i) == calls[i].pc # "idle" /\ calls'[i].pc = "idle"

\* The request of slot i is handed to the sink, once, in this step.
Delivered(i) ==
    /\ requests' = Append(requests, calls[i].request)
    /\ records' = Append(records, calls[i].request.Record)

\* An RPC returns in this step without having occupied a slot: an Export
\* that ends at the header check or at the simulated failure, or a
\* GetShardingConfig.
ReturnsAtOnce == last' # last /\ calls' = calls /\ last'.rpc # "none"

\* C1: with required headers configured, an Export or GetShardingConfig call
\* whose metadata does not carry the expected value of every header returns
\* an error and nothing else: it never gets to the router logic (no handler
\* in flight has such metadata), the sink and the map are unchanged, and no
\* response and no map is returned.
C1_RejectedBeforeRouterLogic ==
    [][HeadersConfigured =>
          /\ \A i \in Slots : calls'[i].carried
          /\ (ReturnsAtOnce /\ ~last'.carried) =>
                /\ ~last'.err.isNil
                /\ last'.response.isNil
                /\ last'.cfg.isNil
                /\ UNCHANGED <<requests, records, config, calls>>]_vars

C1_Witness ==
    /\ HeadersConfigured
    /\ last.rpc = "Export"
    /\ ~last.carried
    /\ ~last.err.isNil
    /\ Len(requests) > 0

\* C2: an Export that passed the header check and the failure simulation,
\* served while the map did not change, whose shard is no exact member of
\* the map, is answered SHARD_CONFIG_MISTMATCH with the router's current map
\* attached, and the sink is unchanged.
C2_MismatchAnswer ==
    [][\A i \in Slots :
          (Finishes(i) /\ ~calls[i].stale
              /\ ~ExactMember(calls[i].request.Shard, config)) =>
             /\ last'.err.isNil
             /\ last'.response = ExportResponse("SHARD_CONFIG_MISTMATCH", config)
             /\ UNCHANGED <<requests, records>>]_vars

C2_Witness ==
    /\ last.rpc = "Export"
    /\ last.err.isNil
    /\ ~last.stale
    /\ last.request.Shard = Shard1All
    /\ config = ConfigA
    /\ last.response = ExportResponse("SHARD_CONFIG_MISTMATCH", ConfigA)

\* C3 as claimed: an Export whose shard is an exact member of the map (served
\* while the map did not change) is delivered once and answered OK with no
\* map attached, whatever nextResponseCode and nextResponseShardingConfig hold.
C3_AcceptedAnsweredOK ==
    [][\A i \in Slots :
          (Finishes(i) /\ ~calls[i].stale
              /\ ExactMember(calls[i].request.Shard, config)) =>
             /\ Delivered(i)
             /\ last'.err.isNil
             /\ last'.response = ExportResponse("OK", NilConfig)]_vars

\* C3 as amended: such an Export is delivered once and answered with
\* nextResponseCode and nextResponseShardingConfig, which is OK with no map
\* attached while the two fields hold their initial values.
C3_AcceptedAnsweredNextResponse ==
    [][\A i \in Slots :
          (Finishes(i) /\ ~calls[i].stale
              /\ ExactMember(calls[i].request.Shard, config)) =>
             /\ Delivered(i)
             /\ last'.err.isNil
             /\ last'.response =
                    ExportResponse(nextResponseCode, nextResponseShardingConfig)
             /\ (nextResponseCode = "OK" /\ nextResponseShardingConfig = NilConfig) =>
                    last'.response = ExportResponse("OK", NilConfig)]_vars

C3_Witness ==
    /\ last.rpc = "Export"
    /\ last.err.isNil
    /\ ~last.stale
    /\ ExactMember(last.request.Shard, config)
    /\ last.request.Shard = Shard2Nil
    /\ last.response = ExportResponse("OK", NilConfig)
    /\ requests = <<last.request>>
    /\ records = <<last.request.Record>>

\* An Export returns in this step (from a slot or at the simulated failure).
ExportReturns ==
    /\ last'.rpc = "Export"
    /\ \/ \E i \in Slots : Finishes(i)
       \/ ReturnsAtOnce

\* C4 as claimed: with a stable, non-empty map, an Export answered
\* SHARD_CONFIG_MISTMATCH carries the router's map, and the re-issue of the
\* record with a shard taken from the attached map is accepted on the next
\* round-trip: delivered and answered OK.
C4_RetryAccepted ==
    [][(ExportReturns /\ ~last'.stale /\ Len(config.ShardDefinitions) > 0) =>
          /\ (last'.err.isNil /\ last'.response.ResultCode = "SHARD_CONFIG_MISTMATCH") =>
                 last'.response.ShardingConfig = config
          /\ last'.follow \in {"retry", "retryOther"} =>
                 /\ last'.err.isNil
                 /\ last'.response.ResultCode = "OK"
                 /\ requests' = Append(requests, last'.request)]_vars

\* C4 as amended: with a stable, non-empty map, (a) an Export answered
\* SHARD_CONFIG_MISTMATCH while nextResponseCode is OK carries the router's
\* map; (b) when the attached map is the router's map, the re-issue of the
\* record with a shard taken from it is, unless it ends at the simulated
\* failure, delivered and answered with nextResponseCode: OK while that field
\* is OK.
C4_RetryAcceptedUnlessScripted ==
    [][(ExportReturns /\ ~last'.stale /\ Len(config.ShardDefinitions) > 0) =>
          /\ (last'.err.isNil /\ nextResponseCode = "OK"
                 /\ last'.response.ResultCode = "SHARD_CONFIG_MISTMATCH") =>
                 last'.response.ShardingConfig = config
          /\ (last'.follow = "retry" /\ last'.err # ErrUnavailable) =>
                 /\ last'.err.isNil
                 /\ last'.response.ResultCode = nextResponseCode
                 /\ requests' = Append(requests, last'.request)
                 /\ records' = Append(records, last'.request.Record)]_vars

C4_Witness ==
    /\ last.rpc = "Export"
    /\ last.follow = "retry"
    /\ last.err.isNil
    /\ last.request = ExportRequest(Shard1, Record1)
    /\ config = ConfigA
    /\ last.response = ExportResponse("OK", NilConfig)
    /\ requests = <<last.request>>

\* C5 as claimed: the resubmission of a request answered OK, the map being
\* unchanged and no failure simulated, is answered OK.
C5_ResubmitAnsweredOK ==
    [][\A i \in Slots :
          (Finishes(i) /\ calls[i].follow = "resubmit") =>
             /\ last'.err.isNil
             /\ last'.response.ResultCode = "OK"]_vars

\* C5 as amended: the resubmission of a request answered OK (the map having
\* changed neither while that request was served nor since) is delivered
\* again and answered with nextResponseCode and nextResponseShardingConfig:
\* OK every time while nextResponseCode is not assigned another value.
C5_ResubmitAnsweredNextResponse ==
    [][\A i \in Slots :
          (Finishes(i) /\ calls[i].follow = "resubmit") =>
             /\ last'.err.isNil
             /\ Delivered(i)
             /\ last'.response =
                    ExportResponse(nextResponseCode, nextResponseShardingConfig)
             /\ nextResponseCode = "OK" => last'.response.ResultCode = "OK"]_vars

C5_Witness ==
    /\ last.rpc = "Export"
    /\ last.follow = "resubmit"
    /\ last.response.ResultCode = "OK"
    /\ requests = <<last.request, last.request>>

\* C6: the map is an atomic register.  It holds, whole, the argument of the
\* latest SetConfig (the empty map before the first); every read (that of
\* GetShardingConfig, that of the Export handler at line 66) returns exactly
\* that map; GetShardingConfig changes neither the map nor the sink.
C6_AtomicRegister ==
    /\ config = lastSet
    /\ [][/\ config' = lastSet'
          /\ config' \in Configs
          /\ (ReturnsAtOnce /\ last'.rpc = "GetShardingConfig") =>
                /\ last'.err.isNil => last'.cfg = lastSet
                /\ UNCHANGED <<config, requests, records>>
          /\ \A i \in Slots :
                (Finishes(i) /\ calls[i].pc = "mismatch") =>
                    last'.response.ShardingConfig = lastSet]_vars

C6_Witness ==
    /\ last.rpc = "GetShardingConfig"
    /\ last.err.isNil
    /\ last.cfg = ConfigB
    /\ lastSet = ConfigB
    /\ calls[1].pc = "mismatch"
    /\ calls[1].stale
    /\ Len(requests) > 0

\* The call was rejected by the header check: its metadata lacks an expected
\* value, or no failure is simulated by this router.
RejectedByHeaderCheck ==
    /\ last.rpc # "none"
    /\ ~last.err.isNil
    /\ ~last.carried \/ ~RandomServerError

\* C7 as claimed: a request rejected by the header check fails with a
\* PERMISSION_DENIED error.
C7_RejectedPermissionDenied ==
    RejectedByHeaderCheck => Code(last.err) = "PermissionDenied"

\* C7 as amended: a request rejected by the header check fails with a plain
\* error, no gRPC status, which the client sees as Unknown and without retry
\* information; the simulated failure is a status of code Unavailable that
\* carries a retry delay, so the two are told apart.
C7_RejectedPlainError ==
    /\ RejectedByHeaderCheck =>
          /\ ~last.err.status
          /\ Code(last.err) = "Unknown"
          /\ last.err.retryDelay = 0
    /\ (last.rpc # "none" /\ ~last.err.isNil /\ ~HeadersConfigured) =>
          /\ last.err.status
          /\ Code(last.err) = "Unavailable"
          /\ last.err.retryDelay = RetryDelayNanos

C7_Witness ==
    /\ RejectedByHeaderCheck
    /\ RandomServerError
    /\ last.rpc = "Export"
    /\ Code(last.err) = "Unknown"

-----------------------------------------------------------------------------
(* Properties of the sinks *)

\* How many entries of seq are r.
Count(seq, r) == Cardinality({i \in 1..Len(seq) : seq[i] = r})

RECURSIVE SumSpanCount(_)
SumSpanCount(recs) ==
    IF recs = <<>> THEN 0 ELSE Head(recs).SpanCount + SumSpanCount(Tail(recs))

\* A call of the named operation on the encoder sink returns in this step.
EncoderCalled(op) == encoderCall'.flip # encoderCall.flip /\ encoderCall'.op = op

\* C9: over any sequence of onReady and onFail calls successSpanCount never
\* decreases and equals the sum of SpanCount over encodedRecords; onReady
\* adds record.SpanCount to it and appends the record; getSuccessSpanCount
\* returns the counter, never less than it returned before.
C9_SuccessCounter ==
    /\ successSpanCount = SumSpanCount(encodedRecords)
    /\ [][/\ successSpanCount' >= successSpanCount
          /\ successSpanCount' = SumSpanCount(encodedRecords')
          /\ EncoderCalled("onReady") =>
                /\ successSpanCount' = successSpanCount + encoderCall'.record.SpanCount
                /\ encodedRecords' = Append(encodedRecords, encoderCall'.record)
          /\ EncoderCalled("getSuccessSpanCount") =>
                /\ encoderCall'.successRead = successSpanCount
                /\ encoderCall'.successRead >= encoderCall.successRead]_vars

C9_Witness ==
    /\ encoderCall.op = "getSuccessSpanCount"
    /\ encoderCall.successRead = 3
    /\ successSpanCount = 3
    /\ Len(encodedRecords) = 2
    /\ failSpanCount = 2

\* C10: onFail appends the failed items, in order, to failedSpans and adds
\* their number to failSpanCount, which is the length of failedSpans in every
\* state; it leaves successSpanCount and encodedRecords as they are.
C10_OnFailRecordsOnly ==
    /\ failSpanCount = Len(failedSpans)
    /\ [][/\ failSpanCount' = Len(failedSpans')
          /\ EncoderCalled("onFail") =>
                /\ failedSpans' = failedSpans \o encoderCall'.spans
                /\ failSpanCount' = failSpanCount + Len(encoderCall'.spans)
                /\ UNCHANGED <<successSpanCount, encodedRecords>>]_vars

C10_Witness ==
    /\ encoderCall.op = "onFail"
    /\ encoderCall.spans = <<"span2", "span1">>
    /\ failedSpans = <<"span1", "span2", "span1">>
    /\ failSpanCount = 3
    /\ successSpanCount = 2
    /\ Len(encodedRecords) = 1

\* A call of the named callback on the client sink returns in this step.
ClientCalled(op) == clientCall'.flip # clientCall.flip /\ clientCall'.op = op

\* C11 as claimed: after onFail(items, code) and after onSendFail(record,
\* code) the sink retains the code with the failed items: the state the call
\* leaves tells the code apart from every other code, and what the accessors
\* of the client sink return changes with the failure.
C11_FailureCodeRetained ==
    [][/\ EncoderCalled("onFail") =>
             \A c \in EncoderErrorCodes \ {encoderCall'.code} :
                 failedSpans' # appendFailedSpans(failedSpans, encoderCall'.spans, c)
       /\ ClientCalled("onSendFail") =>
             /\ \A c \in SendErrorCodes \ {clientCall'.code} :
                    failedRecords' # appendFailedRecord(failedRecords, clientCall'.record, c)
             /\ ClientAccessors' # ClientAccessors]_vars

\* C11 as amended: the sinks retain the failed items and drop the code.
\* After onFail(items, code) failedSpans ends with the items and
\* failSpanCount counts them, as getFailedSpans and getFailSpanCount return,
\* and the sink is in the state any other code would have left.  After
\* onSendFail(record, code) failedRecords ends with the record and is in the
\* state any other code would have left; getResponseToRecords and
\* getResponses return what they returned before.
C11_FailureItemsRetained ==
    [][/\ EncoderCalled("onFail") =>
             /\ \A c \in EncoderErrorCodes :
                    failedSpans' = appendFailedSpans(failedSpans, encoderCall'.spans, c)
             /\ failedSpans' = failedSpans \o encoderCall'.spans
       /\ (readBack' # readBack /\ readBack'.accessor = "getFailedSpans") =>
             readBack'.value = failedSpans
       /\ (readBack' # readBack /\ readBack'.accessor = "getFailSpanCount") =>
             readBack'.value = Len(failedSpans)
       /\ ClientCalled("onSendFail") =>
             /\ \A c \in SendErrorCodes :
                    failedRecords' = appendFailedRecord(failedRecords, clientCall'.record, c)
             /\ failedRecords' = Append(failedRecords, clientCall'.record)
             /\ ClientAccessors' = ClientAccessors]_vars

C11_Witness ==
    /\ encoderCall.op = "onFail"
    /\ encoderCall.code = "ErrRecordTooLarge"
    /\ readBack = ReadBack("getFailedSpans", <<"span1", "span2">>)
    /\ clientCall.op = "onSendFail"
    /\ clientCall.code = "TRANSIENT_EXHAUSTED"
    /\ failedRecords = <<clientCall.record>>
    /\ Len(responses) = 1

\* No goroutine is inside a method of the sink of mutex m.
SinkFree(m) ==
    \A i \in Procs : MutexOf(procs[i].call.op) = m => procs[i].pc \in {"idle", "lock"}

\* C12: under any interleaving of concurrent calls, whenever no onReceive is
\* in progress the server sink holds one request and one record per
\* onReceive that returned, records[k] being the record of requests[k];
\* whenever no call on the client sink is in progress, responseToRecords and
\* responses hold, in the same order, the record and the response of every
\* onSendResponse that returned, and failedRecords one record per onSendFail
\* that returned.  The append of onSendFail changes failedRecords only, and
\* an accessor reads while the paired lists of its sink have the same length.
C12_SinksUnderConcurrency ==
    /\ SinkFree("server") =>
          /\ Len(requests) = finished["onReceive"]
          /\ Len(records) = finished["onReceive"]
          /\ \A k \in 1..Len(requests) : records[k] = requests[k].Record
    /\ SinkFree("client") =>
          /\ Len(responseToRecords) = finished["onSendResponse"]
          /\ Len(responses) = finished["onSendResponse"]
          /\ \A k \in 1..Len(responses) :
                 <<responseToRecords[k], responses[k]>> = passed[k]
          /\ Len(failedRecords) = finished["onSendFail"]
    /\ [][/\ failedRecords' # failedRecords =>
                UNCHANGED <<responseToRecords, responses, requests, records>>
          /\ \A i \in Procs :
                (procs[i].pc = "first" /\ procs'[i].pc = "unlock"
                    /\ procs[i].call.op \notin DOMAIN finished) =>
                   /\ IF procs[i].call.op = "GetRecords"
                      THEN Len(requests) = Len(records)
                      ELSE Len(responseToRecords) = Len(responses)
                   /\ readBack'.accessor = procs[i].call.op
                   /\ procs[i].call.op = "GetRecords" => readBack'.value = records
                   /\ procs[i].call.op = "getResponses" => readBack'.value = responses]_vars

C12_Witness ==
    /\ \A i \in Procs : procs[i].pc = "idle"
    /\ finished["onReceive"] = 2
    /\ Len(requests) = 2
    /\ requests[1] # requests[2]
    /\ readBack.accessor = "GetRecords"
    /\ Len(readBack.value) = 1

-----------------------------------------------------------------------------
(* Properties of the router under rebalancing *)

\* C13 as claimed: under any interleaving of Export handlers with SetConfig,
\* when a request is appended to the server sink its shard is an exact member
\* of the map that is current at that moment.
C13_AcceptedShardOwned ==
    [][\A i \in Slots :
          (Finishes(i) /\ requests' # requests) =>
             ExactMember(calls[i].request.Shard, config)]_vars

\* C14: the failure simulation leaves the router's state machine alone.  An
\* Export answered Unavailable comes from a router with RandomServerError
\* set, after the header check has passed, and has no other effect: no
\* response, no delivery, sink, map and handlers in flight unchanged.  Every
\* other step of a handler is what the request, the map and the scripted
\* answer make it, with or without the simulation: the lookup of line 62
\* decides on the map alone, a mismatch answers with the map and leaves the
\* sink alone, an accepted request is delivered once and answered with
\* nextResponseCode and nextResponseShardingConfig.
C14_SimulationLeavesRouterAlone ==
    /\ (last.rpc # "none" /\ last.err = ErrUnavailable) =>
          /\ RandomServerError
          /\ last.rpc = "Export"
          /\ last.carried
          /\ last.response.isNil
    /\ [][/\ (ReturnsAtOnce /\ last'.err = ErrUnavailable) =>
                UNCHANGED <<requests, records, config, calls, nextResponseCode,
                            nextResponseShardingConfig, lastSet>>
          /\ \A i \in Slots :
                /\ (calls[i].pc = "check" /\ calls'[i].pc # "check") =>
                      /\ calls'[i].pc =
                            IF shardIsPartOfConfig(calls[i].request.Shard, config)
                            THEN "accept" ELSE "mismatch"
                      /\ UNCHANGED <<requests, records, config, last>>
                /\ (Finishes(i) /\ calls[i].pc = "mismatch") =>
                      /\ last'.err.isNil
                      /\ last'.response = ExportResponse("SHARD_CONFIG_MISTMATCH", config)
                      /\ UNCHANGED <<requests, records, config>>
                /\ (Finishes(i) /\ calls[i].pc = "accept") =>
                      /\ last'.err.isNil
                      /\ last'.response =
                            ExportResponse(nextResponseCode, nextResponseShardingConfig)
                      /\ Delivered(i)
                      /\ UNCHANGED config]_vars

C14_Witness ==
    /\ RandomServerError
    /\ HeadersConfigured
    /\ last.rpc = "Export"
    /\ last.err = ErrUnavailable
    /\ Len(requests) = 1
    /\ calls[1].pc = "accept"

\* C17 as claimed: under any interleaving with SetConfig, the map attached
\* to a SHARD_CONFIG_MISTMATCH answer of the shard lookup is not nil and does
\* not hold the shard of the request.
C17_AttachedMapSnapshot ==
    [][\A i \in Slots :
          (Finishes(i) /\ calls[i].pc = "mismatch") =>
             /\ last'.response.ResultCode = "SHARD_CONFIG_MISTMATCH"
             /\ ~last'.response.ShardingConfig.isNil
             /\ ~ExactMember(calls[i].request.Shard,
                             last'.response.ShardingConfig)]_vars

-----------------------------------------------------------------------------
(* Properties of the header check *)

\* C15 as claimed: the check rejects a call if and only if some configured
\* header is absent from the metadata or has no value that is the expected
\* one; a call that carries the expected value of every configured header is
\* not rejected, whatever other values it carries.
C15_RejectedIffNotCarried ==
    checked.called => (~checked.err.isNil <=> ~Carries(checked.ctx))

\* The metadata holds, under every configured header, the expected value and
\* no other value.
CarriesOnly(ctx) ==
    ctx.ok /\ \A k \in DOMAIN headers : ctx.md[k] = <<headers[k]>>

\* C15 as amended: with no header configured no call is rejected, even one
\* without metadata; with headers configured a call is rejected if and only
\* if it has no metadata or, for some configured header, its metadata does
\* not hold exactly one value, the expected one.  Keys that are not
\* configured do not matter; a second value under a configured key, be it
\* the expected one again, rejects the call.
C15_RejectedIffNotExactlyOne ==
    checked.called =>
        /\ DOMAIN headers = {} => checked.err.isNil
        /\ DOMAIN headers # {} => (checked.err.isNil <=> CarriesOnly(checked.ctx))
        /\ (DOMAIN headers # {} /\ ~checked.ctx.ok) => checked.err = ErrNoMetadata
        /\ checked.err \in {NoError, ErrNoMetadata, ErrMissingHeader}

C15_Witness ==
    /\ checked.called
    /\ DOMAIN headers = {"x-api-key"}
    /\ checked.ctx = IncomingMetadata(<<"secret", "secret">>, <<"wrong">>)
    /\ checked.err = ErrMissingHeader

-----------------------------------------------------------------------------
(* Properties of delivery *)

\* The sender's request is in the sink and was answered.
DeliveredAnswered ==
    /\ last.rpc = "Export"
    /\ last.err.isNil
    /\ last.request = sending
    /\ Count(requests, sending) > 0

\* The sender's request is in the sink and was answered OK.
DeliveredOK == DeliveredAnswered /\ last.response.ResultCode = "OK"

\* A call that passed line 52 returns in this step.
Returns == \E i \in Slots : calls[i].pc # "idle" /\ calls'[i].pc = "idle"

\* C16 as claimed: with a stable map that holds the shard of the sender's
\* request, the sender that resubmits after every Unavailable answer
\* eventually has the request in the server sink and an OK answer, provided
\* the simulated failure does not fire forever.
C16_AtLeastOnceOK ==
    /\ ExactMember(sending.Shard, config) => <>DeliveredOK
    /\ (ExactMember(sending.Shard, config) /\ last.err = ErrUnavailable) ~> DeliveredOK

\* C16 as amended: such a sender eventually has the request in the server
\* sink and an answer that is no error, from the start and again after every
\* Unavailable answer, provided the simulated failure does not fire forever.
\* The answer is nextResponseCode with nextResponseShardingConfig: OK while
\* nextResponseCode is OK.  Every such answer comes with one append of the
\* request and every append with such an answer, so nothing delivered is
\* lost and a request resubmitted after OK is in the sink once more.
C16_AtLeastOnce ==
    /\ ExactMember(sending.Shard, config) => <>DeliveredAnswered
    /\ (ExactMember(sending.Shard, config) /\ last.err = ErrUnavailable)
          ~> DeliveredAnswered
    /\ [][/\ config' = config
          /\ (ExactMember(sending.Shard, config) /\ Returns) =>
                /\ last'.err.isNil
                /\ last'.request = sending
                /\ requests' = Append(requests, sending)
                /\ records' = Append(records, sending.Record)
                /\ last'.response =
                      ExportResponse(nextResponseCode, nextResponseShardingConfig)
                /\ nextResponseCode = "OK" => last'.response.ResultCode = "OK"
          /\ requests' # requests =>
                /\ requests' = Append(requests, sending)
                /\ Returns /\ last'.err.isNil
          /\ (ExactMember(sending.Shard, config) /\ last' # last) =>
                last'.err = ErrUnavailable \/ last'.err.isNil]_vars

C16_Witness ==
    /\ RandomServerError
    /\ ExactMember(sending.Shard, config)
    /\ last.err = ErrUnavailable
    /\ requests = <<sending>>
    /\ sending.Shard = Shard2Nil

-----------------------------------------------------------------------------
(* Properties of the receiver configuration *)

IsTLSOption(o) ==
    o.with = "GRPCServerOptions" /\ Len(o.options) = 1 /\ o.options[1].name = "Creds"

IsGRPCGroup(o) == o.with = "GRPCServerOptions" /\ ~IsTLSOption(o)

IsTraceGroup(o) == o.with = "TraceReceiverOptions"

\* The option named `name` is in a group of the list.
Emits(opts, name) ==
    \E i \in 1..Len(opts) : \E k \in 1..Len(opts[i].options) :
        opts[i].options[k].name = name

\* The place of an option in the order TLS, gRPC server options, trace
\* receiver options.
Rank(o) == IF IsTLSOption(o) THEN 1 ELSE IF IsGRPCGroup(o) THEN 2 ELSE 3

\* What the claim says of the options of a configuration.
OptionsAsConfigured(cfg, opts) ==
    /\ (\E i \in 1..Len(opts) : IsTLSOption(opts[i])) <=> ~cfg.TLSCredentials.isNil
    /\ (\E i \in 1..Len(opts) : IsGRPCGroup(opts[i])) <=>
          \/ Positive64(cfg.MaxRecvMsgSizeMiB)
          \/ cfg.MaxConcurrentStreams > 0
          \/ ~cfg.Keepalive.isNil /\ ~cfg.Keepalive.ServerParameters.isNil
          \/ ~cfg.Keepalive.isNil /\ ~cfg.Keepalive.EnforcementPolicy.isNil
    /\ (\E i \in 1..Len(opts) : IsTraceGroup(opts[i])) <=>
          (cfg.EnableBackPressure \/ cfg.MaxServerStreams > 0)
    /\ Emits(opts, "WithBackPressure") <=> cfg.EnableBackPressure
    /\ Emits(opts, "WithMaxServerStream") <=> cfg.MaxServerStreams > 0
    /\ Emits(opts, "MaxRecvMsgSize") <=> Positive64(cfg.MaxRecvMsgSizeMiB)
    /\ Emits(opts, "MaxConcurrentStreams") <=> cfg.MaxConcurrentStreams > 0
    /\ Emits(opts, "KeepaliveParams") <=>
          (~cfg.Keepalive.isNil /\ ~cfg.Keepalive.ServerParameters.isNil)
    /\ Emits(opts, "KeepaliveEnforcementPolicy") <=>
          (~cfg.Keepalive.isNil /\ ~cfg.Keepalive.EnforcementPolicy.isNil)
    /\ cfg = ZeroConfig => opts = <<>>
    /\ \A i \in 1..Len(opts) : \A j \in 1..Len(opts) :
          i < j => Rank(opts[i]) < Rank(opts[j])

\* C18 as claimed: for every configuration buildOptions emits an option for
\* a setting if and only if the setting is configured, in the order TLS, gRPC
\* server options, trace receiver options; with nil TLSCredentials there is
\* no TLS option and no error.
C18_OptionIffConfigured ==
    receiver.built =>
        /\ OptionsAsConfigured(receiver.cfg, receiver.opts)
        /\ receiver.cfg.TLSCredentials.isNil => receiver.err = ""

\* C18 as amended: buildOptions returns an error, and no option at all, if
\* and only if TLSCredentials is set and the certificate and key do not
\* load; otherwise it emits an option for a setting if and only if the
\* setting is configured, in the order TLS, gRPC server options, trace
\* receiver options, the keepalive settings and the stream limits being
\* handed on as they are.
C18_OptionIffConfiguredOrError ==
    receiver.built =>
        /\ receiver.err # "" <=>
              (~receiver.cfg.TLSCredentials.isNil /\ ~receiver.cfg.TLSCredentials.loads)
        /\ receiver.err # "" => receiver.opts = <<>>
        /\ receiver.err = "" =>
              /\ OptionsAsConfigured(receiver.cfg, receiver.opts)
              /\ \A i \in 1..Len(receiver.opts) :
                    \A k \in 1..Len(receiver.opts[i].options) :
                       LET o == receiver.opts[i].options[k] IN
                          /\ o.name = "KeepaliveParams" =>
                                o.value = receiver.cfg.Keepalive.ServerParameters
                          /\ o.name = "KeepaliveEnforcementPolicy" =>
                                o.value = receiver.cfg.Keepalive.EnforcementPolicy
                          /\ o.name = "MaxConcurrentStreams" =>
                                o.value = receiver.cfg.MaxConcurrentStreams
                          /\ o.name = "WithMaxServerStream" =>
                                o.value = receiver.cfg.MaxServerStreams

C18_Witness ==
    /\ receiver.built
    /\ receiver.err = ""
    /\ Len(receiver.opts) = 3
    /\ IsTLSOption(receiver.opts[1])
    /\ Len(receiver.opts[2].options) = 4
    /\ Len(receiver.opts[3].options) = 2

\* a < b, for two numbers of as many digits.
RECURSIVE LessDigits(_, _)
LessDigits(a, b) ==
    IF a = <<>> THEN FALSE
    ELSE LET n == Len(a)
         IN  IF a[n] # b[n] THEN a[n] < b[n]
             ELSE LessDigits(SubSeq(a, 1, n - 1), SubSeq(b, 1, n - 1))

\* a < b, for two ints of one size.
SignedLess(a, b) == IF a.neg # b.neg THEN a.neg ELSE LessDigits(a.bits, b.bits)

\* x * 1024 * 1024 in the integers: on six digits nothing is carried out.
ExactBytes(x) == mulLimbs(mulLimbs(x \o <<0, 0>>, 1024, 0), 1024, 0)

\* The digits of an int, as six digits.
SixDigits(bits) == bits \o [d \in 1..(6 - Len(bits)) |-> 0]

\* The size handed to grpc.MaxRecvMsgSize for MaxRecvMsgSizeMiB = x.
MaxRecvMsgSize(x) == ToInt(mebibytesToBytes(x), receiver.intSize)

\* C19 as claimed: for every MaxRecvMsgSizeMiB > 0 the size handed to the
\* transport is positive, equals MaxRecvMsgSizeMiB * 1024 * 1024, and is
\* greater than the size of every smaller positive MaxRecvMsgSizeMiB.
C19_MaxRecvMsgSizeExact ==
    (receiver.built /\ receiver.err = "" /\ Positive64(receiver.cfg.MaxRecvMsgSizeMiB)) =>
        LET x == receiver.cfg.MaxRecvMsgSizeMiB
            given == receiver.opts[Len(receiver.opts) -
                         (IF IsTraceGroup(receiver.opts[Len(receiver.opts)]) THEN 1 ELSE 0)]
        IN  /\ IsGRPCGroup(given)
            /\ given.options[1] = ServerOption("MaxRecvMsgSize", MaxRecvMsgSize(x))
            /\ ~MaxRecvMsgSize(x).neg
            /\ SixDigits(MaxRecvMsgSize(x).bits) = ExactBytes(x)
            /\ \A y \in MaxRecvMsgSizes :
                   (Positive64(y) /\ LessDigits(y, x)) =>
                       SignedLess(MaxRecvMsgSize(y), MaxRecvMsgSize(x))

\* Where the claim does hold: below 2^43 MiB with an int of 64 bits, below
\* 2^11 MiB with an int of 32 bits.
C19_SmallSizesExact ==
    (receiver.built /\ receiver.err = "" /\ Positive64(receiver.cfg.MaxRecvMsgSizeMiB)
        /\ LessDigits(receiver.cfg.MaxRecvMsgSizeMiB,
                      IF receiver.intSize = 64 THEN <<0, 0, 2048, 0>> ELSE <<2048, 0, 0, 0>>)) =>
        /\ ~MaxRecvMsgSize(receiver.cfg.MaxRecvMsgSizeMiB).neg
        /\ SixDigits(MaxRecvMsgSize(receiver.cfg.MaxRecvMsgSizeMiB).bits) =
              ExactBytes(receiver.cfg.MaxRecvMsgSizeMiB)

-----------------------------------------------------------------------------
(* Properties of WaitForN *)

\* C20 as claimed: the waiting interval starts at 5 ms, never decreases,
\* grows by doubling, and is at most 500 ms whenever the function waits.
C20_WaitIntervalBounded ==
    /\ [](waiting.pc = "sleep" => waiting.waitInterval <= IntervalLimit)
    /\ [][/\ (waiting.pc = "idle" /\ waiting'.pc # "idle") =>
                waiting'.waitInterval = StartInterval
          /\ waiting.pc # "idle" =>
                /\ waiting'.waitInterval >= waiting.waitInterval
                /\ waiting'.waitInterval # waiting.waitInterval =>
                      waiting'.waitInterval = 2 * waiting.waitInterval]_vars

\* What holds instead: the interval doubles while it is below 500 ms, so it
\* stops at 640 ms, the first of 5, 10, 20, ... that is not below 500.
C20_WaitIntervalBelowTwiceLimit ==
    waiting.pc # "idle" =>
        /\ waiting.waitInterval \in {5, 10, 20, 40, 80, 160, 320, 640}
        /\ waiting.waitInterval < 2 * IntervalLimit

====
